---- MODULE Spec2Model ----
(***************************************************************************)
(* One run of a Streamlit form script of the MSD risk predictor.  Two      *)
(* scripts exist: msd_app.py (four risk tiers, checkboxes for pain areas)  *)
(* and app.py (binary risk, 0..10 pain sliders, department and shift).     *)
(* A run goes top to bottom through the script: load the model artifact,   *)
(* read the widgets, assemble the feature record, and, when the Predict    *)
(* button was pressed, predict, show the label, render charts and write    *)
(* the PDF report.  Exceptions either reach an except clause (msd_app.py   *)
(* only, around the button body) or leave the script.                      *)
(*                                                                         *)
(* Text is modelled as a sequence of string tokens; Join gives the text.   *)
(* str.replace acts on tokens, the separators being tokens of their own.   *)
(* Emoji that the scripts put in front of their messages are left out.     *)
(***************************************************************************)
EXTENDS Integers, Sequences, FiniteSets, TLC

VARIABLES
    app,             \* the script that runs: "msd_app" or "app"
    artifact,        \* the model file exists on disk
    modelCols,       \* len(model.feature_names_in_) of the artifact (app.py)
    pc,              \* position of the run in the script
    form,            \* widget key -> value, once the widgets were read
    record,          \* the feature record handed to the predictor
    pressed,         \* st.button returned True
    prediction,      \* {} or {p}: model.predict(...)[0]
    risk_label,      \* the label shown (risk_label / result_text), "" if none
    errorShown,      \* the st.error message shown, "" if none
    uncaught,        \* the exception that left the script, "" if none
    charts,          \* chart name -> plotted data, for the charts rendered
    chartFile,       \* pain_chart.png exists on disk
    pdf,             \* the lines of the FPDF object built so far
    reportFile,      \* the lines of the report file on disk, << >> if none
    downloadOffered, \* the download link / button was rendered
    log              \* the steps of the run, in order

vars == <<app, artifact, modelCols, pc, form, record, pressed, prediction,
          risk_label, errorShown, uncaught, charts, chartFile, pdf,
          reportFile, downloadOffered, log>>

(***************************************************************************)
(* Bounds of the model.                                                    *)
(***************************************************************************)
\* At most this many widgets are moved away from their default value.
MaxChanged == 2
\* The predictor returns a class index in 0..MaxClass.
MaxClass == 4

Apps == {"msd_app", "app"}

(***************************************************************************)
(* Text helpers.                                                           *)
(***************************************************************************)
RECURSIVE Join(_)
Join(toks) == IF toks = << >> THEN "" ELSE Head(toks) \o Join(Tail(toks))

\* str.replace(old, new) where old is one token of the text
Replace(toks, old, new) ==
    [i \in DOMAIN toks |-> IF toks[i] = old THEN new ELSE toks[i]]

\* The tokens of the keys of the pain dictionaries of both scripts.
Tokens(key) ==
    CASE key = "Neck"                -> <<"Neck">>
      [] key = "Shoulder"            -> <<"Shoulder">>
      [] key = "Elbow"               -> <<"Elbow">>
      [] key = "Wrist"               -> <<"Wrist">>
      [] key = "Upper Back"          -> <<"Upper", " ", "Back">>
      [] key = "Lower Back"          -> <<"Lower", " ", "Back">>
      [] key = "Hip/Thigh"           -> <<"Hip", "/", "Thigh">>
      [] key = "Knee"                -> <<"Knee">>
      [] key = "Ankle"               -> <<"Ankle">>
      [] key = "NMQ_Neck_Pain"       -> <<"NMQ_", "Neck", "_", "Pain">>
      [] key = "NMQ_Shoulder_Pain"   -> <<"NMQ_", "Shoulder", "_", "Pain">>
      [] key = "NMQ_Elbow_Pain"      -> <<"NMQ_", "Elbow", "_", "Pain">>
      [] key = "NMQ_Wrist_Pain"      -> <<"NMQ_", "Wrist", "_", "Pain">>
      [] key = "NMQ_Upper_Back_Pain" -> <<"NMQ_", "Upper", "_", "Back", "_", "Pain">>
      [] key = "NMQ_Lower_Back_Pain" -> <<"NMQ_", "Lower", "_", "Back", "_", "Pain">>
      [] key = "NMQ_Hip_Thigh_Pain"  -> <<"NMQ_", "Hip", "_", "Thigh", "_", "Pain">>
      [] key = "NMQ_Knee_Pain"       -> <<"NMQ_", "Knee", "_", "Pain">>
      [] key = "NMQ_Ankle_Pain"      -> <<"NMQ_", "Ankle", "_", "Pain">>

(***************************************************************************)
(* The widgets, in script order.  A number_input or slider without value=  *)
(* starts at its minimum, a selectbox or radio at its first option, a      *)
(* checkbox unchecked.                                                     *)
(***************************************************************************)
Num(key, lo, hi, value) ==
    [key |-> key, kind |-> "number", min |-> lo, max |-> hi, value |-> value]
Sel(key, options) ==
    [key |-> key, kind |-> "select", options |-> options]
Chk(key) ==
    [key |-> key, kind |-> "checkbox"]

\* msd_app.py pain_areas keys, in dictionary order
pain_areas_keys ==
    <<"Neck", "Shoulder", "Elbow", "Wrist", "Upper Back", "Lower Back",
      "Hip/Thigh", "Knee", "Ankle">>

\* app.py pain_inputs keys, in dictionary order
pain_inputs_keys ==
    <<"NMQ_Neck_Pain", "NMQ_Shoulder_Pain", "NMQ_Elbow_Pain", "NMQ_Wrist_Pain",
      "NMQ_Upper_Back_Pain", "NMQ_Lower_Back_Pain", "NMQ_Hip_Thigh_Pain",
      "NMQ_Knee_Pain", "NMQ_Ankle_Pain">>

PainKeys(a) == IF a = "msd_app" THEN pain_areas_keys ELSE pain_inputs_keys

GenderOptions == <<"Male", "Female">>
ShiftOptions == <<"Day Shift", "Night Shift">>
DepartmentOptions ==
    <<"Crystallizer Operator", "Water Treatment Plant Operator",
      "Clarifier Assistant", "Lubrication Technician",
      "Evaporator Section Worker", "Other">>

\* a mutant of PainSlider: the scale goes one further
PainSliderWide(key) == Num(key, 0, 11, 0)

\* the slider of one pain region of app.py
PainSlider(key) == Num(key, 0, 10, 0)

MsdWidgets ==
    <<Num("age", 18, 65, 18), Sel("gender", GenderOptions),
      Num("height", 130, 210, 130), Num("weight", 35, 150, 35),
      Num("reba", 1, 15, 1), Num("qec", 50, 176, 50)>>
    \o [i \in DOMAIN pain_areas_keys |-> Chk(pain_areas_keys[i])]

AppWidgets ==
    <<Num("age", 18, 70, 35), Sel("gender", GenderOptions),
      Num("height", 130, 200, 165), Num("weight", 30, 120, 65),
      Sel("department", DepartmentOptions), Sel("shift", ShiftOptions)>>
    \o [i \in DOMAIN pain_inputs_keys |-> PainSlider(pain_inputs_keys[i])]
    \o <<Num("reba", 1, 15, 5), Num("qec", 0, 176, 50)>>

Widgets(a) == IF a = "msd_app" THEN MsdWidgets ELSE AppWidgets

Range(s) == {s[i] : i \in DOMAIN s}

Default(w) ==
    CASE w.kind = "number"   -> w.value
      [] w.kind = "select"   -> w.options[1]
      [] w.kind = "checkbox" -> FALSE

\* The values a user can give the widget: the whole range of a select or a
\* checkbox; of a number the two ends of its range and the default.
Choices(w) ==
    CASE w.kind = "number"   -> {w.min, w.max, w.value}
      [] w.kind = "select"   -> Range(w.options)
      [] w.kind = "checkbox" -> BOOLEAN

\* The forms a user can submit with at most k of the widgets ws[i..] changed.
RECURSIVE Forms(_, _, _)
Forms(ws, i, k) ==
    IF i > Len(ws) THEN {<< >>}
    ELSE LET w == ws[i]
         IN  {(w.key :> Default(w)) @@ f : f \in Forms(ws, i + 1, k)}
             \cup
             (IF k = 0 THEN {}
              ELSE UNION {{(w.key :> v) @@ f : f \in Forms(ws, i + 1, k - 1)}
                          : v \in Choices(w) \ {Default(w)}})

FormInputs(a) == Forms(Widgets(a), 1, MaxChanged)

\* pain_areas / pain_inputs: the pain dictionary of the form
PainItems(a, f) == [i \in DOMAIN PainKeys(a) |-> f[PainKeys(a)[i]]]

(***************************************************************************)
(* msd_app.py: the feature record.                                         *)
(***************************************************************************)
gender_val(gender) == IF gender = "Male" THEN 0 ELSE 1

\* int(value) of a checkbox value
BoolToInt(b) == IF b THEN 1 ELSE 0

\* f'NMQ_{key.replace("/", "").replace(" ", "")}_Pain', as tokens
col_tokens(key) ==
    <<"NMQ_">> \o Replace(Replace(Tokens(key), "/", ""), " ", "") \o <<"_", "Pain">>

\* a mutant of col_name: the key is put in as it is
col_name_raw(key) == "NMQ_" \o key \o "_Pain"

col_name(key) == Join(col_tokens(key))

\* the loop over pain_areas.items(), from item i on, adding to the dict d
RECURSIVE AddPainFields(_, _, _)
AddPainFields(d, f, i) ==
    IF i > Len(pain_areas_keys) THEN d
    ELSE LET key == pain_areas_keys[i]
         IN  AddPainFields((col_name(key) :> BoolToInt(f[key])) @@ d, f, i + 1)

input_data(f) ==
    AddPainFields(
        [Age |-> f["age"], Gender |-> gender_val(f["gender"]),
         Height_cm |-> f["height"], Weight_kg |-> f["weight"],
         QEC_Obs_Total_Score |-> f["qec"], REBA_Final_Score |-> f["reba"]],
        f, 1)

(***************************************************************************)
(* app.py: the feature vector.                                             *)
(***************************************************************************)
\* weight / ((height / 100) ** 2), kept as the exact fraction
bmi(height, weight) == [num |-> weight * 10000, den |-> height * height]

\* a mutant of one_hot_encoding: the first option is not dropped
one_hot_all(value, options) ==
    [i \in DOMAIN options |-> IF value = options[i] THEN 1 ELSE 0]

\* [1 if value == opt else 0 for opt in options[1:]]
one_hot_encoding(value, options) ==
    [i \in DOMAIN Tail(options) |-> IF value = Tail(options)[i] THEN 1 ELSE 0]

gender_enc(f) == one_hot_encoding(f["gender"], GenderOptions)
shift_enc(f) == one_hot_encoding(f["shift"], ShiftOptions)
dept_enc(f) == one_hot_encoding(f["department"], DepartmentOptions)

input_features(f) ==
    <<f["age"], bmi(f["height"], f["weight"]), f["reba"], f["qec"]>>
    \o PainItems("app", f) \o gender_enc(f) \o dept_enc(f) \o shift_enc(f)

\* The form with every widget at its default.
DefaultForm(a) == CHOOSE f \in Forms(Widgets(a), 1, 0) : TRUE

\* len(model.feature_names_in_) is a property of the artifact of app.py: the
\* number of entries the script assembles, or another number.
ModelColumnCounts ==
    LET n == Len(input_features(DefaultForm("app"))) IN {n, n + 1}

(***************************************************************************)
(* The predictor and the labels.                                           *)
(***************************************************************************)
\* model.predict(...)[0] returns a class index or raises
Classes == 0..MaxClass

\* a mutant of label_map: the last tier is missing
label_map_short == (0 :> "Low") @@ (1 :> "Medium") @@ (2 :> "High")

label_map == (0 :> "Low") @@ (1 :> "Medium") @@ (2 :> "High") @@ (3 :> "Very High")

result_text(p) ==
    IF p = 1 THEN "High Risk of Musculoskeletal Disorder" ELSE "Low Risk of MSD"

\* a mutant of AfterButton: the body runs whether or not the button was pressed
AfterButtonAlways(b) == "predict"

\* what the script does after st.button returned b
AfterButton(b) == IF b THEN "predict" ELSE "done"

(***************************************************************************)
(* The report.                                                             *)
(***************************************************************************)
Digit(d) == ToString(d)

\* f"{b:.2f}" of a positive fraction: rounded to hundredths
Fmt2(b) ==
    LET h == (200 * b.num + b.den) \div (2 * b.den)
    IN  ToString(h \div 100) \o "." \o Digit((h % 100) \div 10) \o Digit(h % 10)

\* pain_selected = {k: v for k, v in pain_areas.items() if v}, its keys
pain_selected(f) == SelectSeq(pain_areas_keys, LAMBDA k : f[k])

MsdPdfLines(f, label) ==
    <<  <<"MSD Risk Prediction Report">>,
        <<"Age: ", ToString(f["age"])>>,
        <<"Gender: ", f["gender"]>>,
        <<"Height: ", ToString(f["height"]), " cm">>,
        <<"Weight: ", ToString(f["weight"]), " kg">>,
        <<"REBA Score: ", ToString(f["reba"])>>,
        <<"QEC Score: ", ToString(f["qec"])>>,
        <<"Predicted Risk Level: ", label>>,
        <<"Pain Areas Reported:">> >>
    \o [i \in DOMAIN pain_selected(f) |-> <<"- ", pain_selected(f)[i]>>]

\* region.replace('NMQ_', '').replace('_', ' ')
region_text(region) == Join(Replace(Replace(Tokens(region), "NMQ_", ""), "_", " "))

AppPdfLines(f, p) ==
    <<  <<"MSD Risk Prediction Report">>,
        <<"Prediction: ", IF p = 1 THEN "High Risk" ELSE "Low Risk">>,
        <<"Age: ", ToString(f["age"]), " | Gender: ", f["gender"],
          " | BMI: ", Fmt2(bmi(f["height"], f["weight"]))>>,
        <<"Department: ", f["department"], " | Shift: ", f["shift"]>>,
        <<"REBA Score: ", ToString(f["reba"]), " | QEC Score: ", ToString(f["qec"])>>,
        <<"Pain Scores:">> >>
    \o [i \in DOMAIN pain_inputs_keys |->
          <<region_text(pain_inputs_keys[i]), ": ",
            ToString(f[pain_inputs_keys[i]]), "/10">>]

chart_path == "pain_chart.png"

(***************************************************************************)
(* The charts.                                                             *)
(***************************************************************************)
\* "Score": [1 if label == risk_label else 0 for label in label_map.values()]
RiskChart(label) ==
    [p \in DOMAIN label_map |-> IF label_map[p] = label THEN 1 ELSE 0]

MsdCharts(f, label) ==
    LET risk == [risk |-> RiskChart(label)]
        pain == IF pain_selected(f) # << >>
                THEN [pain |-> pain_selected(f)] ELSE << >>
        cmp  == [reba_qec |-> <<f["reba"], f["qec"]>>]
    IN  risk @@ pain @@ cmp

AppCharts(f) == [pain |-> PainItems("app", f)]

(***************************************************************************)
(* The run.                                                                *)
(***************************************************************************)
Terminal == {"done", "stopped", "crashed"}

Init ==
    /\ app \in Apps
    /\ artifact \in BOOLEAN
    /\ modelCols \in (IF app = "app" THEN ModelColumnCounts
                      ELSE {Cardinality(DOMAIN input_data(DefaultForm(app)))})
    /\ pc = "start"
    /\ form = << >>
    /\ record = << >>
    /\ pressed = FALSE
    /\ prediction = {}
    /\ risk_label = ""
    /\ errorShown = ""
    /\ uncaught = ""
    /\ charts = << >>
    /\ chartFile = FALSE
    /\ pdf = << >>
    /\ reportFile = << >>
    /\ downloadOffered = FALSE
    /\ log = << >>

\* An exception raised at module level, outside any try: it leaves the script.
Escapes(exc) ==
    /\ uncaught' = exc
    /\ pc' = "crashed"
    /\ UNCHANGED errorShown

\* An exception raised in the body of the button: msd_app.py catches it and
\* shows st.error, app.py has no try and lets it leave the script.
RaisesInButton(exc) ==
    IF app = "msd_app"
    THEN /\ errorShown' = "Error during prediction: " \o exc
         /\ pc' = "done"
         /\ UNCHANGED uncaught
    ELSE Escapes(exc)

\* msd_app.py 25-30: os.path.exists, st.error + st.stop, joblib.load
\* app.py 10: joblib.load
LoadModel ==
    /\ pc = "start"
    /\ log' = Append(log, "load")
    /\ IF artifact
       THEN pc' = "form" /\ UNCHANGED <<errorShown, uncaught>>
       ELSE IF app = "msd_app"
            THEN /\ errorShown' = "Model file not found!"
                 /\ pc' = "stopped"
                 /\ UNCHANGED uncaught
            ELSE Escapes("FileNotFoundError")
    /\ UNCHANGED <<app, artifact, modelCols, form, record, pressed, prediction,
                   risk_label, charts, chartFile, pdf, reportFile,
                   downloadOffered>>

\* the widget calls of the script
ReadForm ==
    /\ pc = "form"
    /\ \E f \in FormInputs(app) : form' = f
    /\ pc' = "assemble"
    /\ log' = Append(log, "read")
    /\ UNCHANGED <<app, artifact, modelCols, record, pressed, prediction,
                   risk_label, errorShown, uncaught, charts, chartFile, pdf,
                   reportFile, downloadOffered>>

\* msd_app.py 57-70: input_data, df
\* app.py 54-66: the encodings, input_features, input_df; pandas raises
\* ValueError when the row has not as many entries as columns are named
Assemble ==
    /\ pc = "assemble"
    /\ log' = Append(log, "assemble")
    /\ IF app = "msd_app"
       THEN /\ record' = input_data(form)
            /\ pc' = "button"
            /\ UNCHANGED <<errorShown, uncaught>>
       ELSE IF Len(input_features(form)) = modelCols
            THEN /\ record' = input_features(form)
                 /\ pc' = "button"
                 /\ UNCHANGED <<errorShown, uncaught>>
            ELSE /\ Escapes("ValueError")
                 /\ UNCHANGED record
    /\ UNCHANGED <<app, artifact, modelCols, form, pressed, prediction,
                   risk_label, charts, chartFile, pdf, reportFile,
                   downloadOffered>>

\* if st.button("Predict MSD Risk"):
Button ==
    /\ pc = "button"
    /\ \E b \in BOOLEAN :
         /\ pressed' = b
         /\ pc' = AfterButton(b)
    /\ log' = Append(log, "button")
    /\ UNCHANGED <<app, artifact, modelCols, form, record, prediction,
                   risk_label, errorShown, uncaught, charts, chartFile, pdf,
                   reportFile, downloadOffered>>

\* prediction = model.predict(df)[0]
Predict ==
    /\ pc = "predict"
    /\ log' = Append(log, "predict")
    /\ \/ \E p \in Classes :
            /\ prediction' = {p}
            /\ pc' = "label"
            /\ UNCHANGED <<errorShown, uncaught>>
       \/ /\ RaisesInButton("predict failed")
          /\ UNCHANGED prediction
    /\ UNCHANGED <<app, artifact, modelCols, form, record, pressed,
                   risk_label, charts, chartFile, pdf, reportFile,
                   downloadOffered>>

\* msd_app.py 79-80: risk_label = label_map[prediction]; st.success
\* app.py 71-73: result_text; st.write
MapLabel ==
    /\ pc = "label"
    /\ \E p \in prediction :
         IF app = "msd_app"
         THEN IF p \in DOMAIN label_map
              THEN /\ risk_label' = label_map[p]
                   /\ pc' = "charts"
                   /\ log' = Append(log, "label")
                   /\ UNCHANGED <<errorShown, uncaught>>
              ELSE /\ RaisesInButton("KeyError " \o ToString(p))
                   /\ UNCHANGED <<risk_label, log>>
         ELSE /\ risk_label' = result_text(p)
              /\ pc' = "charts"
              /\ log' = Append(log, "label")
              /\ UNCHANGED <<errorShown, uncaught>>
    /\ UNCHANGED <<app, artifact, modelCols, form, record, pressed, prediction,
                   charts, chartFile, pdf, reportFile, downloadOffered>>

\* msd_app.py 82-115: the three charts; app.py 75-81: the pain chart
RenderCharts ==
    /\ pc = "charts"
    /\ charts' = IF app = "msd_app" THEN MsdCharts(form, risk_label)
                 ELSE AppCharts(form)
    /\ pc' = IF app = "msd_app" THEN "pdf" ELSE "savefig"
    /\ log' = Append(log, "charts")
    /\ UNCHANGED <<app, artifact, modelCols, form, record, pressed, prediction,
                   risk_label, errorShown, uncaught, chartFile, pdf, reportFile,
                   downloadOffered>>

\* app.py 84-85: fig.savefig(chart_path); writing the file can fail
SaveChart ==
    /\ pc = "savefig"
    /\ app = "app"
    /\ \/ /\ chartFile' = TRUE
          /\ pc' = "pdf"
          /\ log' = Append(log, "savefig")
          /\ UNCHANGED <<errorShown, uncaught>>
       \/ /\ RaisesInButton("savefig failed")
          /\ UNCHANGED <<chartFile, log>>
    /\ UNCHANGED <<app, artifact, modelCols, form, record, pressed, prediction,
                   risk_label, charts, pdf, reportFile, downloadOffered>>

\* msd_app.py 118-133, app.py 88-100: the text cells of the PDF
BuildPdf ==
    /\ pc = "pdf"
    /\ \E p \in prediction :
         pdf' = IF app = "msd_app" THEN MsdPdfLines(form, risk_label)
                ELSE AppPdfLines(form, p)
    /\ pc' = IF app = "msd_app" THEN "output" ELSE "image"
    /\ log' = Append(log, "pdf")
    /\ UNCHANGED <<app, artifact, modelCols, form, record, pressed, prediction,
                   risk_label, errorShown, uncaught, charts, chartFile,
                   reportFile, downloadOffered>>

\* app.py 102: pdf.image(chart_path, ...); reading the file can fail
EmbedImage ==
    /\ pc = "image"
    /\ app = "app"
    /\ \/ /\ chartFile
          /\ pdf' = Append(pdf, <<"image ", chart_path>>)
          /\ pc' = "output"
          /\ log' = Append(log, "image")
          /\ UNCHANGED <<errorShown, uncaught>>
       \/ /\ RaisesInButton("image failed")
          /\ UNCHANGED <<pdf, log>>
    /\ UNCHANGED <<app, artifact, modelCols, form, record, pressed, prediction,
                   risk_label, charts, chartFile, reportFile, downloadOffered>>

\* msd_app.py 135: pdf.output("report.pdf"); app.py 103-104:
\* pdf.output(pdf_path); writing the file can fail
OutputPdf ==
    /\ pc = "output"
    /\ \/ /\ reportFile' = pdf
          /\ pc' = IF app = "msd_app" THEN "download" ELSE "remove"
          /\ log' = Append(log, "report")
          /\ UNCHANGED <<errorShown, uncaught>>
       \/ /\ RaisesInButton("output failed")
          /\ UNCHANGED <<reportFile, log>>
    /\ UNCHANGED <<app, artifact, modelCols, form, record, pressed, prediction,
                   risk_label, charts, chartFile, pdf, downloadOffered>>

\* app.py 105: os.remove(chart_path)
RemoveChart ==
    /\ pc = "remove"
    /\ app = "app"
    /\ chartFile' = FALSE
    /\ pc' = "download"
    /\ log' = Append(log, "remove")
    /\ UNCHANGED <<app, artifact, modelCols, form, record, pressed, prediction,
                   risk_label, errorShown, uncaught, charts, pdf, reportFile,
                   downloadOffered>>

\* msd_app.py 136-139: the download link; app.py 107-113: st.download_button
OfferDownload ==
    /\ pc = "download"
    /\ downloadOffered' = TRUE
    /\ pc' = "done"
    /\ log' = Append(log, "download")
    /\ UNCHANGED <<app, artifact, modelCols, form, record, pressed, prediction,
                   risk_label, errorShown, uncaught, charts, chartFile, pdf,
                   reportFile>>

Next ==
    \/ LoadModel
    \/ ReadForm
    \/ Assemble
    \/ Button
    \/ Predict
    \/ MapLabel
    \/ RenderCharts
    \/ SaveChart
    \/ BuildPdf
    \/ EmbedImage
    \/ OutputPdf
    \/ RemoveChart
    \/ OfferDownload

Spec == Init /\ [][Next]_vars

(***************************************************************************)
(* Properties.                                                             *)
(***************************************************************************)
Steps == Range(log)

\* the step was taken in this run
Did(step) == step \in Steps

\* the position of a step in the log, 0 when it was not taken
Pos(step) == IF Did(step) THEN CHOOSE i \in DOMAIN log : log[i] = step ELSE 0

\* the form was read
FormRead == Did("read")

\* C1: for every predicted class in {0,1,2,3}, once the label step has run the
\* label shown is the one the fixed table gives for that class (msd_app.py:
\* 0 Low, 1 Medium, 2 High, 3 Very High; app.py: 1 high risk, else low risk),
\* whatever the form inputs were, and the lookup has not failed.
C1_LabelMapTotal ==
    \A p \in prediction :
        (p \in 0..3 /\ pc # "label") =>
            /\ Did("label")
            /\ errorShown = "" \/ Did("charts")
            /\ risk_label =
                 IF app = "msd_app"
                 THEN (CASE p = 0 -> "Low" [] p = 1 -> "Medium"
                         [] p = 2 -> "High" [] p = 3 -> "Very High")
                 ELSE (IF p = 1 THEN "High Risk of Musculoskeletal Disorder"
                       ELSE "Low Risk of MSD")

C1_Witness ==
    /\ app = "msd_app"
    /\ pc = "done"
    /\ prediction = {3}
    /\ risk_label = "Very High"
    /\ form["Neck"]

\* the order of the pipeline
StepOrder ==
    <<"load", "read", "assemble", "button", "predict", "label", "charts",
      "savefig", "pdf", "image", "report", "remove", "download">>

Rank(step) == CHOOSE i \in DOMAIN StepOrder : StepOrder[i] = step

\* C7: the steps of a run occur only in the order read, assemble, predict,
\* label, charts, report; the predictor is called only when the button was
\* pressed and at most once; a report file exists only after predict has
\* returned and its result was mapped to a label in the same run.
C7_PipelineOrder ==
    /\ \A i, j \in DOMAIN log : i < j => Rank(log[i]) < Rank(log[j])
    /\ Cardinality({i \in DOMAIN log : log[i] = "predict"}) <= 1
    /\ Did("predict") => pressed
    /\ (reportFile # << >>) <=> Did("report")
    /\ Did("report") =>
         /\ Did("read") /\ Did("assemble") /\ Did("charts")
         /\ Pos("predict") < Pos("label") /\ Pos("label") < Pos("report")
         /\ prediction # {}
         /\ risk_label # ""

C7_Witness ==
    /\ pc = "done"
    /\ pressed
    /\ reportFile # << >>
    /\ downloadOffered

\* the properties C10 states of one encoding
OneHotOk(enc, value, options) ==
    /\ Len(enc) = Len(options) - 1
    /\ \A i \in DOMAIN enc : enc[i] \in {0, 1} /\ (enc[i] = 1 <=> value = options[i + 1])
    /\ Cardinality({i \in DOMAIN enc : enc[i] = 1}) <= 1
    /\ (\A i \in DOMAIN enc : enc[i] = 0) <=> value = options[1]

\* C10: in app.py, for every form read, each one-hot encoding has one entry
\* less than there are options, entry i being 1 exactly when the value is
\* option i+1 (so at most one 1, and none exactly for the first option), and
\* the feature vector has 20 entries: 4 numeric, 9 pain, 1 gender,
\* 5 department, 1 shift.
C10_OneHotEncoding ==
    (app = "app" /\ FormRead) =>
        /\ OneHotOk(gender_enc(form), form["gender"], GenderOptions)
        /\ OneHotOk(dept_enc(form), form["department"], DepartmentOptions)
        /\ OneHotOk(shift_enc(form), form["shift"], ShiftOptions)
        /\ Len(gender_enc(form)) = 1
        /\ Len(dept_enc(form)) = 5
        /\ Len(shift_enc(form)) = 1
        /\ Len(input_features(form)) = 20
        /\ pc = "button" =>
             /\ Len(record) = 20
             /\ SubSeq(record, 14, 14) = gender_enc(form)
             /\ SubSeq(record, 15, 19) = dept_enc(form)
             /\ SubSeq(record, 20, 20) = shift_enc(form)

C10_Witness ==
    /\ app = "app"
    /\ pc = "button"
    /\ form["department"] = "Other"
    /\ form["shift"] = "Night Shift"
    /\ record[19] = 1
    /\ record[20] = 1

\* the six columns msd_app.py sets before the pain loop
BaseColumns ==
    {"Age", "Gender", "Height_cm", "Weight_kg", "QEC_Obs_Total_Score",
     "REBA_Final_Score"}

\* the record msd_app.py hands to the predictor exists
MsdRecord == app = "msd_app" /\ Did("assemble")

\* a name with its underscores taken out
NoUnderscore(toks) == Join(Replace(Replace(toks, "NMQ_", "NMQ"), "_", ""))

\* C5 as stated: the record of msd_app.py has the six base columns and one
\* NMQ_<Area>_Pain column per pain area, whatever the inputs, and its nine
\* pain columns are the nine names app.py uses.
C5_AsStated ==
    MsdRecord =>
        /\ Cardinality(DOMAIN record) = 15
        /\ BaseColumns \subseteq DOMAIN record
        /\ DOMAIN record \ BaseColumns = Range(pain_inputs_keys)

\* C5 amended: the record of msd_app.py has exactly 15 columns, the six base
\* columns and one pain column per area, whatever the inputs; both scripts
\* name the same nine areas in the same order, and the column names are the
\* same up to underscores: msd_app.py writes NMQ_UpperBack_Pain,
\* NMQ_LowerBack_Pain and NMQ_HipThigh_Pain where app.py writes
\* NMQ_Upper_Back_Pain, NMQ_Lower_Back_Pain and NMQ_Hip_Thigh_Pain; the other
\* six names are identical.
C5_ColumnSet ==
    MsdRecord =>
        /\ DOMAIN record =
             BaseColumns \cup
             {"NMQ_Neck_Pain", "NMQ_Shoulder_Pain", "NMQ_Elbow_Pain",
              "NMQ_Wrist_Pain", "NMQ_UpperBack_Pain", "NMQ_LowerBack_Pain",
              "NMQ_HipThigh_Pain", "NMQ_Knee_Pain", "NMQ_Ankle_Pain"}
        /\ Cardinality(DOMAIN record) = 15
        /\ \A i \in DOMAIN pain_areas_keys :
             LET key == pain_areas_keys[i]
             IN  /\ col_name(key) \in DOMAIN record
                 /\ record[col_name(key)] = (IF form[key] THEN 1 ELSE 0)
                 /\ NoUnderscore(col_tokens(key)) = NoUnderscore(Tokens(pain_inputs_keys[i]))
                 /\ (col_name(key) = pain_inputs_keys[i]) <=> i \notin {5, 6, 7}

C5_Witness ==
    /\ MsdRecord
    /\ pc = "button"
    /\ form["Upper Back"]
    /\ ~form["Neck"]
    /\ record["NMQ_UpperBack_Pain"] = 1
    /\ record["NMQ_Neck_Pain"] = 0

\* the nine pain fields of the record, in the order of the pain dictionary
PainFields ==
    IF app = "msd_app"
    THEN [i \in DOMAIN pain_areas_keys |-> record[col_name(pain_areas_keys[i])]]
    ELSE SubSeq(record, 5, 13)

\* the record exists and can be handed to the predictor
RecordBuilt == pc = "button" \/ Did("button")

RebaOf == IF app = "msd_app" THEN record["REBA_Final_Score"] ELSE record[3]
QecOf == IF app = "msd_app" THEN record["QEC_Obs_Total_Score"] ELSE record[4]

\* C6 as stated: in every record handed to the predictor, by either script,
\* each of the nine pain fields is 0 or 1, REBA is in 1..15 and QEC is at
\* most 176.
C6_AsStated ==
    RecordBuilt =>
        /\ Len(PainFields) = 9
        /\ \A i \in DOMAIN PainFields : PainFields[i] \in {0, 1}
        /\ RebaOf \in 1..15
        /\ QecOf <= 176

\* C6 amended: in every record handed to the predictor there are nine pain
\* fields; in msd_app.py each is a flag 0 or 1, in app.py each is a score in
\* 0..10; REBA is in 1..15 and QEC is at most 176 (and at least 50 in
\* msd_app.py, at least 0 in app.py).
C6_FieldRanges ==
    RecordBuilt =>
        /\ Len(PainFields) = 9
        /\ \A i \in DOMAIN PainFields :
             PainFields[i] \in (IF app = "msd_app" THEN {0, 1} ELSE 0..10)
        /\ RebaOf \in 1..15
        /\ QecOf \in (IF app = "msd_app" THEN 50..176 ELSE 0..176)

C6_Witness ==
    /\ app = "app"
    /\ pc = "predict"
    /\ record[5] = 10
    /\ record[3] = 15

\* C2: when the model artifact is missing the run ends with an error message
\* shown, and without a form field read, the predictor called, a label shown
\* or a report written, in either script.
C2_ArtifactMissing ==
    (~artifact /\ pc \in Terminal) =>
        /\ errorShown # ""
        /\ ~Did("read")
        /\ DOMAIN form = {}
        /\ ~Did("predict")
        /\ risk_label = ""
        /\ reportFile = << >>

\* the predictor was called and raised
PredictRaised == Did("predict") /\ prediction = {}

\* C3: when the predictor raises, the run ends with an error message shown,
\* no label shown, no report written and no exception leaving the script, in
\* either script.
C3_PredictRaisesCaught ==
    (PredictRaised /\ pc # "predict") =>
        /\ pc = "done"
        /\ errorShown # ""
        /\ uncaught = ""
        /\ risk_label = ""
        /\ reportFile = << >>

\* the tokens of all lines of the report file
ReportTokens == UNION {Range(reportFile[i]) : i \in DOMAIN reportFile}

\* the report has a line where the token `text` follows the token `label`
HasEntry(label, text) ==
    \E i \in DOMAIN reportFile :
        \E j \in DOMAIN reportFile[i] :
            j > 1 /\ reportFile[i][j - 1] = label /\ reportFile[i][j] = text

\* the report states the value of the widget: after the label of the field
\* for a number or a choice; for a checkbox of msd_app.py a line of the area,
\* which for an unchecked area has to say so in some way; for a pain slider
\* of app.py the score after the name of the region
ReportHas(w) ==
    CASE w.kind = "select" ->
           \E label \in {"Gender: ", " | Gender: ", "Department: ",
                         " | Department: ", "Shift: ", " | Shift: "} :
               HasEntry(label, form[w.key])
      [] w.kind = "checkbox" ->
           IF form[w.key] THEN HasEntry("- ", w.key) ELSE w.key \in ReportTokens
      [] w.kind = "number" /\ w.key \in Range(pain_inputs_keys) ->
           \E i \in DOMAIN reportFile :
               reportFile[i] = <<region_text(w.key), ": ", ToString(form[w.key]), "/10">>
      [] OTHER ->
           \E label \in
               (CASE w.key = "age"    -> {"Age: ", " | Age: "}
                  [] w.key = "height" -> {"Height: ", " | Height: "}
                  [] w.key = "weight" -> {"Weight: ", " | Weight: "}
                  [] w.key = "reba"   -> {"REBA Score: ", " | REBA Score: "}
                  [] w.key = "qec"    -> {"QEC Score: ", " | QEC Score: "}) :
               HasEntry(label, ToString(form[w.key]))

\* C4: every report written states the value of every field the form
\* collected, for every combination of inputs, unselected pain fields included.
C4_ReportHasEveryField ==
    (reportFile # << >>) =>
        \A i \in DOMAIN Widgets(app) : ReportHas(Widgets(app)[i])

\* the complete result of a submission
CompleteResult ==
    /\ risk_label # ""
    /\ DOMAIN charts # {}
    /\ reportFile # << >>
    /\ downloadOffered
    /\ errorShown = ""
    /\ uncaught = ""

\* the failed submission: an error and nothing of the result
ErrorOnly ==
    /\ errorShown # "" \/ uncaught # ""
    /\ risk_label = ""
    /\ DOMAIN charts = {}
    /\ reportFile = << >>
    /\ ~downloadOffered

\* C8: every run in which the button was pressed ends with the complete
\* result or with an error and nothing of the result; a label and an error
\* message are never both visible.
C8_NoPartialFailure ==
    (pressed /\ pc \in Terminal) =>
        /\ CompleteResult \/ ErrorOnly
        /\ ~(risk_label # "" /\ errorShown # "")

\* C9: in app.py pain_chart.png exists when it is embedded in the PDF and is
\* gone when the run has ended, however it ended.
C9_ChartFileRemoved ==
    app = "app" =>
        /\ Did("image") => Pos("savefig") < Pos("image")
        /\ pc \in Terminal => ~chartFile
====
